---- MODULE Spec2Model ----
(***************************************************************************)
(* The WebTeleprompter React component, in the seven revisions the         *)
(* repository holds:                                                       *)
(*   "A"   src/src/components/WebTeleprompter.js lines 1-327               *)
(*   "B"   src/src/components/WebTeleprompter.js lines 328-486 (a partial  *)
(*         rewrite: startCamera, the permission effect, the loading view)  *)
(*   "P0"  src/unnamed/part_000                                            *)
(*   "P1a" src/unnamed/part_001 lines 1-235                                *)
(*   "P1b" src/unnamed/part_001 lines 236-403                              *)
(*   "P2"  src/unnamed/part_002                                            *)
(*   "P3"  src/unnamed/part_003                                            *)
(* One behaviour runs one revision (rev, fixed by Init).                   *)
(*                                                                         *)
(* A step is one task of the browser's event loop: a handler or a promise  *)
(* continuation run to its next await, the batched re-render that follows, *)
(* and the effect cleanups and effects that re-render triggers (each run   *)
(* to its first await).  Promises in flight are the records of calls       *)
(* (startCamera invocations) and checks (checkPermissions invocations);    *)
(* each carries the closure it was created with.                           *)
(*                                                                         *)
(* mode says who drives the component:                                     *)
(*   "react"   the rendered tree decides everything: videoRef.current is   *)
(*             the <video> element exactly when the main view is rendered, *)
(*             and a handler runs only when the view shows its control;    *)
(*   "mounted" as "react", but the presence of the <video> element is an   *)
(*             input (MountVideo / UnmountVideo);                          *)
(*   "direct"  as "mounted", and the handlers are also applied directly,   *)
(*             whatever view is rendered.                                  *)
(***************************************************************************)
EXTENDS Integers, Sequences, FiniteSets, TLC

\* Bounds of the model: how many startCamera invocations reach getUserMedia, how
\* many checkPermissions invocations reach the permission query, how many
\* MediaRecorders are created, how many dataavailable events a recorder fires
\* before its last one. The camera specifications (SpecReact, Spec) create no
\* recorder; the recording specifications (SpecRec, SpecDirect) take fewer
\* camera steps, and SpecDirect's recorders deliver their data when they stop.
ReactCalls == 3
ReactChecks == 2
MaxCalls == 2
MaxChecks == 3
RecCalls == 2
RecChecks == 2
MaxRecorders == 2
MaxData == 1
DirectCalls == 1
UnmountCalls == 2
UnmountChecks == 3
UnmountTimers == 1
DirectChecks == 1
DirectRecorders == 1
SessionCalls == 1
SessionChecks == 2
SessionRecorders == 2
ScrollCalls == 1
ScrollChecks == 2
ScrollTimers == 2
MaxScroll == 6
MaxRawSpeed == 24
MaxClock == 1
ToggleCalls == 4
ToggleChecks == 3
PresentCalls == 2
PresentChecks == 3
PresentTimers == 1
FacingCalls == 4
FacingChecks == 4

Revs == {"A", "B", "P0", "P1a", "P1b", "P2", "P3"}
Modes == {"react", "mounted", "direct"}

Null == "null"
NoStream == 0

\* The revisions by the way they hold the acquired stream.
StateStreamRevs == {"A", "P2"}
RefStreamRevs == {"B", "P0", "P3"}
\* The revisions whose startCamera sets permissionStatus to 'requesting'.
RequestingRevs == {"A", "B", "P0", "P1a", "P2"}
\* The revisions whose loading view also covers 'requesting'.
LoadingOnRequestingRevs == {"A", "B", "P0", "P2"}
\* The revisions that await navigator.permissions.query.
QueryRevs == {"A", "B", "P0", "P2"}
\* The revisions that await the video element after getUserMedia.
AwaitPlayRevs == {"A", "P0", "P2", "P3"}
\* The revisions that define toggleRecording.
RecordingRevs == {"A", "P0", "P1a", "P1b", "P2", "P3"}
\* The revisions whose toggleRecording tests the stream state, or nothing, before
\* it starts a recording.
DirectRevs == {"A", "P1b"}

VARIABLES
    rev,                 \* the revision this behaviour runs
    mode,                \* who drives the component (see above)
    budget,              \* the bounds of this behaviour
    supported,           \* navigator.mediaDevices.getUserMedia exists
    dom,                 \* the scroll container as the browser lays it out and
                         \* stores its offset: [scrollMax, snap]
    phase,               \* "init" before the mount effects, then "mounted"
    hasPermission,       \* useState: "null" | "true" | "false"
    error,               \* useState: Null or the message
    permissionStatus,    \* useState (Null in P1b, which has none)
    facingMode,          \* useState: "user" | "environment"
    stream,              \* useState (A, P2): the stored stream, or NoStream
    isVideoElementReady, \* useState (A)
    streamRef,           \* useRef (B, P0, P3): streamRef.current
    videoRef,            \* videoRef.current is the <video> element
    srcObject,           \* videoRef.current.srcObject
    cbStream,            \* P2: the stream value the memoized startCamera closed over
    calls,               \* startCamera invocations that reached getUserMedia; call i acquires
                         \* stream i; pc is "gum", "play", or how the call ended
    live,                \* the acquired streams with un-stopped tracks
    checks,              \* checkPermissions invocations awaiting permissions.query
    nChecks,             \* how many of them were started
    isRecording,         \* useState
    mediaRecorder,       \* useState: 0 or the recorder
    recorders,           \* the MediaRecorder objects created
    chunksRef,           \* useRef: chunksRef.current
    downloads,           \* the downloads triggered by onstop handlers
    autoScroll,          \* useState
    scrollSpeed,         \* useState, in half-units (2 is 1.0)
    scrollTop,           \* scrollContainerRef.current.scrollTop, in half-units
    timers,              \* the intervals scheduled by setInterval: [id, speed]
    scrollInterval,      \* the interval the scroll effect's cleanup clears, or 0
    nTimers,             \* how many intervals were scheduled
    lastOp               \* the operation of the last step

envVars == <<rev, mode, budget, supported, dom>>
scrollVars == <<autoScroll, scrollSpeed, scrollTop, timers, scrollInterval, nTimers>>
vars == <<rev, mode, budget, supported, dom, phase, hasPermission, error, permissionStatus,
          facingMode, stream, isVideoElementReady, streamRef, videoRef, srcObject,
          cbStream, calls, live, checks, nChecks, isRecording, mediaRecorder,
          recorders, chunksRef, downloads, autoScroll, scrollSpeed, scrollTop,
          timers, scrollInterval, nTimers, lastOp>>

\* The component's state as one record, so that handlers are functions on it.
Cur ==
    [hasPermission |-> hasPermission, error |-> error,
     permissionStatus |-> permissionStatus, facingMode |-> facingMode,
     stream |-> stream, isVideoElementReady |-> isVideoElementReady,
     streamRef |-> streamRef, videoRef |-> videoRef, srcObject |-> srcObject,
     cbStream |-> cbStream, calls |-> calls, live |-> live, checks |-> checks,
     nChecks |-> nChecks, isRecording |-> isRecording,
     mediaRecorder |-> mediaRecorder, recorders |-> recorders,
     chunksRef |-> chunksRef, downloads |-> downloads]

\* Which of the four views the render function returns.
View(s) ==
    IF rev = "P1b"
    THEN IF s.hasPermission = "true" THEN "main" ELSE "permission"
    ELSE IF s.permissionStatus = "checking"
            \/ (rev \in LoadingOnRequestingRevs /\ s.permissionStatus = "requesting")
         THEN "loading"
         ELSE IF s.error # Null THEN "error"
         ELSE IF s.hasPermission # "true" THEN "permission"
         ELSE "main"

\* Error messages.
MsgNotReady == "Video element not initialized"
MsgInitFailed == "Failed to initialize video element"
MsgNotAvailable == "Video element not available"
MsgUnsupported ==
    IF rev = "P1a" THEN "Camera not supported"
    ELSE "Your browser does not support camera access"
MsgGumRejected == "Permission denied"
MsgNoMediaDevices == "Cannot read properties of undefined"
MsgPlayRejected == "play() rejected"
MsgPlayFailed == "Failed to start video playback: play() rejected"
MsgVideoError == "Video element error"
MsgRecordingFailed == "Recording failed: not supported"

\* The closure a startCamera callback is created with: the values of the render
\* that created it.
Closure(s) ==
    [fm |-> s.facingMode,
     cs |-> IF rev = "A" THEN s.stream ELSE IF rev = "P2" THEN s.cbStream ELSE NoStream,
     ready |-> s.isVideoElementReady,
     hp |-> s.hasPermission]

\* track.stop() on every track of stream id; a MediaRecorder recording a stream
\* whose tracks have all ended stops by itself (its final events are then due).
StopTracks(s, id) ==
    [s EXCEPT !.live = @ \ {id},
              !.recorders = [r \in DOMAIN @ |->
                    IF @[r].stream = id /\ @[r].state = "recording" /\ id # NoStream
                    THEN [@[r] EXCEPT !.state = "finishing"] ELSE @[r]]]

\* A catch block that forgets setHasPermission(false).
CatchKeepsPermission(s, msg) ==
    IF rev = "P1b" THEN s
    ELSE [s EXCEPT !.error = msg, !.permissionStatus = "denied"]

\* The catch block of startCamera.
CatchStartCamera(s, msg) ==
    IF rev = "P1b" THEN [s EXCEPT !.hasPermission = "false"]
    ELSE [s EXCEPT !.error = msg, !.hasPermission = "false", !.permissionStatus = "denied"]

\* The stream startCamera releases before it requests a new one.
HeldStream(s, c) ==
    IF rev \in StateStreamRevs THEN c.cs
    ELSE IF rev \in RefStreamRevs THEN s.streamRef
    ELSE NoStream

\* A startCamera that does not test isVideoElementReady.
StartCameraIgnoresReady(s, c, by) ==
    LET s1 == IF rev \in RequestingRevs
              THEN [s EXCEPT !.permissionStatus = "requesting"] ELSE s
        s2 == StopTracks(s1, HeldStream(s1, c))
    IN  IF ~supported THEN CatchStartCamera(s2, MsgNoMediaDevices)
        ELSE [s2 EXCEPT !.calls = Append(@,
                   [pc |-> "gum", fm |-> c.fm, overlap |-> s2.live, by |-> by,
                    at |-> s.permissionStatus])]

\* startCamera up to its await of getUserMedia.
StartCameraSync(s, c, by) ==
    IF rev = "A" /\ ~c.ready THEN [s EXCEPT !.error = MsgNotReady]
    ELSE LET s1 == IF rev \in RequestingRevs
                   THEN [s EXCEPT !.permissionStatus = "requesting"] ELSE s
             s2 == StopTracks(s1, HeldStream(s1, c))
         IN  IF ~supported THEN CatchStartCamera(s2, MsgNoMediaDevices)
             ELSE [s2 EXCEPT !.calls = Append(@,
                        [pc |-> "gum", fm |-> c.fm,
                         overlap |-> s2.live,         \* the streams live at the request
                         by |-> by,                   \* what invoked startCamera
                         at |-> s.permissionStatus])] \* the status it was invoked in

\* checkPermissions up to its await of navigator.permissions.query.
CheckPermissionsSync(s, c) ==
    IF ~supported
    THEN [s EXCEPT !.error = MsgUnsupported, !.hasPermission = "false",
                   !.permissionStatus = "error"]
    ELSE IF rev = "A" /\ ~c.ready THEN s
    ELSE IF rev = "P1a" THEN StartCameraSync(s, c, "effect")
    ELSE [s EXCEPT !.checks = Append(@, c), !.nChecks = @ + 1]

\* The effect that starts the camera: the permission effect, or in P1b and P3
\* the effect that calls startCamera itself.
AcquireEffect(s, c) ==
    IF rev \in QueryRevs \/ rev = "P1a" THEN CheckPermissionsSync(s, c)
    ELSE IF supported \/ rev = "P1b" THEN StartCameraSync(s, c, "effect")
    ELSE [s EXCEPT !.error = MsgUnsupported]

\* Whether the re-render from old to s re-runs the acquiring effect: its
\* dependencies are startCamera (and isVideoElementReady in A, stream in P2), and
\* startCamera is re-created when its own dependencies change.
AcquireDepsChanged(old, s) ==
    \/ old.facingMode # s.facingMode
    \/ rev \in {"A", "P2"} /\ old.stream # s.stream
    \/ rev = "A" /\ old.isVideoElementReady # s.isVideoElementReady

\* The effect cleanups the re-render from old to s runs.
Cleanups(old, s) ==
    IF rev = "A" THEN IF old.stream # s.stream THEN StopTracks(s, old.stream) ELSE s
    ELSE IF rev = "P2"
         THEN IF AcquireDepsChanged(old, s) THEN StopTracks(s, old.stream) ELSE s
    ELSE IF rev \in {"B", "P0"} \/ (rev = "P3" /\ supported)
         THEN IF AcquireDepsChanged(old, s) THEN StopTracks(s, s.streamRef) ELSE s
    ELSE s

\* P1a's "effect to handle camera changes".
FacingEffect(old, s, c) ==
    IF rev = "P1a"
       /\ (old.facingMode # c.fm \/ old.hasPermission # c.hp)
       /\ c.hp = "true"
    THEN StartCameraSync(s, c, "effect") ELSE s

\* The re-render that follows a task which took the state from old to s: the
\* callbacks are re-created, then the cleanups and the effects run.
Commit(old, s) ==
    LET s0 == IF rev = "P2" /\ old.facingMode # s.facingMode
              THEN [s EXCEPT !.cbStream = s.stream] ELSE s
        c  == Closure(s0)
        s1 == Cleanups(old, s0)
        s2 == IF AcquireDepsChanged(old, s0) THEN AcquireEffect(s1, c) ELSE s1
    IN  FacingEffect(old, s2, c)

\* What fits the model's bounds.
Bounded(s) ==
    /\ Len(s.calls) <= budget.calls
    /\ s.nChecks <= budget.checks
    /\ Len(s.recorders) <= budget.recorders

\* The camera and recording state after a task: s, with the DOM as the render
\* leaves it. In mode "react" the <video> element exists exactly when the main
\* view is rendered, and a newly mounted element has no srcObject.
SetCamera(s, op) ==
    /\ Bounded(s)
    /\ hasPermission' = s.hasPermission
    /\ error' = s.error
    /\ permissionStatus' = s.permissionStatus
    /\ facingMode' = s.facingMode
    /\ stream' = s.stream
    /\ isVideoElementReady' = s.isVideoElementReady
    /\ streamRef' = s.streamRef
    /\ videoRef' = IF phase' = "unmounted" THEN FALSE
                   ELSE IF mode = "react" THEN View(s) = "main" ELSE s.videoRef
    /\ srcObject' = IF phase' = "unmounted" THEN NoStream
                    ELSE IF mode = "react" /\ ~(s.videoRef /\ View(s) = "main")
                    THEN NoStream ELSE s.srcObject
    /\ cbStream' = s.cbStream
    /\ calls' = s.calls
    /\ live' = s.live
    /\ checks' = s.checks
    /\ nChecks' = s.nChecks
    /\ isRecording' = s.isRecording
    /\ mediaRecorder' = s.mediaRecorder
    /\ recorders' = s.recorders
    /\ chunksRef' = s.chunksRef
    /\ downloads' = s.downloads
    /\ lastOp' = op
    /\ UNCHANGED envVars

\* The scroll container is an element of the main view.
ContainerMounted(s) == phase = "mounted" /\ View(s) = "main"

\* The state after a task of the camera or of recording. A scroll container
\* that the render mounts anew starts at offset 0.
Set(s, op) ==
    /\ SetCamera(s, op)
    /\ scrollTop' = IF ContainerMounted(Cur) /\ ContainerMounted(s) THEN scrollTop ELSE 0
    /\ UNCHANGED <<autoScroll, scrollSpeed, timers, scrollInterval, nTimers>>

\* After the unmount React drops every state update: what a continuation still
\* changes are the refs and the objects of the browser.
Frozen(s) ==
    [s EXCEPT !.hasPermission = hasPermission, !.error = error,
              !.permissionStatus = permissionStatus, !.facingMode = facingMode,
              !.stream = stream, !.isVideoElementReady = isVideoElementReady,
              !.cbStream = cbStream, !.isRecording = isRecording,
              !.mediaRecorder = mediaRecorder]

\* A task that leaves the state s, and the re-render after it.
Task(s, op) ==
    IF phase = "unmounted" THEN Set(Frozen(s), op) ELSE Set(Commit(Cur, s), op)

Op(name, i) == [op |-> name, i |-> i]

\* Whether the user can reach a control of one of the views vs.
Shown(vs) == phase = "mounted" /\ (mode = "direct" \/ View(Cur) \in vs)

\* How the browser stores a scroll offset: as it is, or snapped to a whole pixel
\* (downwards, or to the nearest pixel).
Snaps == {"exact", "floor", "round"}

\* A scroll container whose content overflows it by MaxScroll half-units.
Doms == [scrollMax : {MaxScroll}, snap : Snaps]
ExactDom == [scrollMax |-> MaxScroll, snap |-> "exact"]

InitState(revs, m, b, sup, video, doms) ==
    /\ rev \in revs
    /\ mode = m
    /\ budget = b
    /\ supported \in sup
    /\ dom \in doms
    /\ phase = "init"
    /\ hasPermission = IF rev \in {"P1b", "P3"} THEN "false" ELSE "null"
    /\ error = Null
    /\ permissionStatus = IF rev = "P1b" THEN Null ELSE "checking"
    /\ facingMode = "user"
    /\ stream = NoStream
    /\ isVideoElementReady = FALSE
    /\ streamRef = NoStream
    /\ videoRef = video
    /\ srcObject = NoStream
    /\ cbStream = NoStream
    /\ calls = <<>>
    /\ live = {}
    /\ checks = <<>>
    /\ nChecks = 0
    /\ isRecording = FALSE
    /\ mediaRecorder = 0
    /\ recorders = <<>>
    /\ chunksRef = <<>>
    /\ downloads = <<>>
    /\ autoScroll = FALSE
    /\ scrollSpeed = 2
    /\ scrollTop = 0
    /\ timers = {}
    /\ scrollInterval = 0
    /\ nTimers = 0
    /\ lastOp = Op("init", 0)

\* The effects of the first render. In A the mount effect sets isVideoElementReady
\* when the <video> element is there, and the re-render runs the permission
\* effect again.
Mount ==
    /\ phase = "init"
    /\ phase' = "mounted"
    /\ LET s1 == AcquireEffect(Cur, Closure(Cur))
       IN  IF rev = "A" /\ videoRef
           THEN Set(Commit(s1, [s1 EXCEPT !.isVideoElementReady = TRUE]), Op("mount", 0))
           ELSE Set(s1, Op("mount", 0))

RemoveAt(q, i) == SubSeq(q, 1, i - 1) \o SubSeq(q, i + 1, Len(q))

\* A checkPermissions that starts the camera on 'prompt' as well.
AfterQueryStartsOnPrompt(s, c, result) ==
    IF result \in {"granted", "throws", "prompt"} THEN StartCameraSync(s, c, "query")
    ELSE [s EXCEPT !.permissionStatus = "denied", !.hasPermission = "false"]

\* A checkPermissions that treats a failing permissions.query as an error.
AfterQueryFailsOnThrow(s, c, result) ==
    IF result = "granted" THEN StartCameraSync(s, c, "query")
    ELSE IF result = "throws"
         THEN [s EXCEPT !.error = MsgNoMediaDevices, !.hasPermission = "false",
                        !.permissionStatus = "error"]
    ELSE IF result = "prompt"
         THEN [s EXCEPT !.permissionStatus = "prompt", !.hasPermission = "false"]
    ELSE [s EXCEPT !.permissionStatus = "denied", !.hasPermission = "false"]

\* A checkPermissions that keeps hasPermission when the query answers 'prompt'
\* or 'denied'.
AfterQueryKeepsPermission(s, c, result) ==
    IF result \in {"granted", "throws"} THEN StartCameraSync(s, c, "query")
    ELSE IF result = "prompt" THEN [s EXCEPT !.permissionStatus = "prompt"]
    ELSE [s EXCEPT !.permissionStatus = "denied"]

\* checkPermissions after navigator.permissions.query settled.
AfterQuery(s, c, result) ==
    IF result \in {"granted", "throws"} THEN StartCameraSync(s, c, "query")
    ELSE IF result = "prompt"
         THEN [s EXCEPT !.permissionStatus = "prompt", !.hasPermission = "false"]
    ELSE [s EXCEPT !.permissionStatus = "denied", !.hasPermission = "false"]

PermissionQueryResolves ==
    /\ phase # "init"
    /\ \E i \in DOMAIN checks : \E result \in {"granted", "prompt", "denied", "throws"} :
          /\ phase' = phase
          /\ Task(AfterQuery([Cur EXCEPT !.checks = RemoveAt(@, i)], checks[i], result),
                  Op(result, 0))

\* A click on "Allow Camera Access" or on "Try Again": both call startCamera.
ClickStartCamera ==
    /\ Shown({"error", "permission"})
    /\ phase' = phase
    /\ Task(StartCameraSync(Cur, Closure(Cur), "click"), Op("click", 0))

\* getUserMedia rejected.
AfterGumRejected(s, i) ==
    CatchStartCamera([s EXCEPT !.calls[i].pc = "rejected"], MsgGumRejected)

GetUserMediaRejects ==
    /\ phase # "init"
    /\ \E i \in DOMAIN calls :
          /\ calls[i].pc = "gum"
          /\ phase' = phase
          /\ Task(AfterGumRejected(Cur, i), Op("gumRejected", i))

\* A success branch that forgets setPermissionStatus('granted').
GrantedKeepsStatus(s) ==
    IF rev = "P1b" THEN [s EXCEPT !.hasPermission = "true"]
    ELSE [s EXCEPT !.hasPermission = "true", !.error = Null]

\* The success branch of startCamera.
Granted(s) ==
    IF rev = "P1b" THEN [s EXCEPT !.hasPermission = "true"]
    ELSE [s EXCEPT !.hasPermission = "true", !.permissionStatus = "granted",
                   !.error = Null]

\* startCamera after getUserMedia resolved with stream i, up to its next await.
AfterGumResolved(s, i) ==
    LET s0 == [s EXCEPT !.live = @ \cup {i}, !.calls[i].pc = "failed"]
        s1 == IF rev \in RefStreamRevs THEN [s0 EXCEPT !.streamRef = i]
              ELSE IF rev = "P2" THEN [s0 EXCEPT !.stream = i]
              ELSE s0
        at == [s1 EXCEPT !.srcObject = i]
    IN  IF s.videoRef
        THEN IF rev \in AwaitPlayRevs THEN [at EXCEPT !.calls[i].pc = "play"]
             ELSE Granted([at EXCEPT !.calls[i].pc = "granted"])
        ELSE IF rev \in {"A", "P2"} THEN CatchStartCamera(s1, MsgInitFailed)
        ELSE IF rev = "P3" THEN CatchStartCamera(s1, MsgNotAvailable)
        ELSE IF rev = "P0"
             THEN [s1 EXCEPT !.error = MsgNotReady, !.permissionStatus = "error"]
        ELSE IF rev = "B" THEN [s1 EXCEPT !.error = MsgNotReady]
        ELSE s1

GetUserMediaResolves ==
    /\ phase # "init"
    /\ \E i \in DOMAIN calls :
          /\ calls[i].pc = "gum"
          /\ phase' = phase
          /\ Task(AfterGumResolved(Cur, i), Op("gumResolved", i))

\* startCamera after the wait for the video element ended.
AfterAttach(s, i, outcome) ==
    LET s0 == [s EXCEPT !.calls[i].pc = "failed"]
        ok == [s EXCEPT !.calls[i].pc = "granted"]
    IN  IF outcome = "ok"
        THEN Granted(IF rev = "A" THEN [ok EXCEPT !.stream = i] ELSE ok)
        ELSE IF outcome = "videoError" THEN CatchStartCamera(s0, MsgVideoError)
        ELSE IF rev = "P0"
             THEN [s0 EXCEPT !.error = MsgPlayFailed, !.permissionStatus = "error"]
        ELSE IF rev = "P2" THEN CatchStartCamera(s0, MsgInitFailed)
        ELSE CatchStartCamera(s0, MsgPlayRejected)

\* The video element fires loadedmetadata and play() settles (A), or the awaited
\* play() settles (P0, P2, P3); in A the element may fire error instead.
AttachCompletes ==
    /\ phase # "init"
    /\ \E i \in DOMAIN calls : \E outcome \in {"ok", "playRejected", "videoError"} :
          /\ calls[i].pc = "play"
          /\ outcome = "videoError" => rev = "A"
          /\ (outcome = "ok" /\ rev = "A") => videoRef
          /\ phase' = phase
          /\ Task(AfterAttach(Cur, i, outcome), Op(outcome, i))

\* A toggle that always selects the rear camera.
FlipToEnvironment(fm) == "environment"

Flip(fm) == IF fm = "user" THEN "environment" ELSE "user"

\* A click on "Flip Camera".
ToggleCamera ==
    /\ Shown({"main"})
    /\ phase' = phase
    /\ Task([Cur EXCEPT !.facingMode = Flip(@)], Op("toggleCamera", 0))

\* The <video> element appears or disappears (not in mode "react", where the
\* render decides).
MountVideo ==
    /\ mode # "react"
    /\ phase # "unmounted"
    /\ ~videoRef
    /\ phase' = phase
    /\ Set([Cur EXCEPT !.videoRef = TRUE, !.srcObject = NoStream], Op("mountVideo", 0))

UnmountVideo ==
    /\ mode # "react"
    /\ videoRef
    /\ phase' = phase
    /\ Set([Cur EXCEPT !.videoRef = FALSE, !.srcObject = NoStream], Op("unmountVideo", 0))

\* The stream toggleRecording records: the stream state (A, P2), streamRef.current
\* (P0, P3) or videoRef.current.srcObject (P1a, P1b).
RecordedStream(s) ==
    IF rev \in StateStreamRevs THEN s.stream
    ELSE IF rev \in RefStreamRevs THEN s.streamRef
    ELSE IF s.videoRef THEN s.srcObject ELSE NoStream

\* The stop branch of toggleRecording. stop() on a recorder that is no longer
\* recording throws InvalidStateError or returns, by the browser (inactiveStop).
StopRecording(s, inactiveStop) ==
    LET r == s.mediaRecorder
    IN  IF r = 0 THEN s
        ELSE IF s.recorders[r].state = "recording"
             THEN [s EXCEPT !.recorders[r].state = "finishing", !.isRecording = FALSE]
        ELSE IF inactiveStop = "throws" THEN s
        ELSE [s EXCEPT !.isRecording = FALSE]

\* A start branch that sets isRecording and leaves the mediaRecorder state as
\* it was.
StartRecordingKeepsRecorder(s, src, outcome) ==
    IF outcome = "ok"
    THEN [s EXCEPT
             !.chunksRef = <<>>,
             !.recorders = Append(@, [stream |-> src, state |-> "recording",
                                      n |-> 0, data |-> <<>>]),
             !.isRecording = TRUE]
    ELSE [s EXCEPT !.chunksRef = <<>>]

\* The start branch of toggleRecording, for the stream src. outcome is what the
\* MediaRecorder constructor and start() do: "ok", "ctorThrows" or "startThrows".
StartRecording(s, src, outcome) ==
    LET cleared == [s EXCEPT !.chunksRef = <<>>]
        failed  == IF rev = "P3" THEN [cleared EXCEPT !.error = MsgRecordingFailed]
                   ELSE IF rev = "P1a" /\ outcome = "ctorThrows" THEN s
                   ELSE cleared
    IN  IF outcome = "ok"
        THEN [cleared EXCEPT
                 !.recorders = Append(@, [stream |-> src, state |-> "recording",
                                          n |-> 0, data |-> <<>>]),
                 !.mediaRecorder = Len(s.recorders) + 1,
                 !.isRecording = TRUE]
        ELSE failed

\* A toggleRecording that starts a recorder whenever a stream is held, without
\* testing isRecording first.
ToggleRecordingAlwaysStarts(s, outcome, inactiveStop) ==
    IF RecordedStream(s) # NoStream THEN StartRecording(s, RecordedStream(s), outcome)
    ELSE s

\* A toggleRecording whose start branch does not test the stream and sets
\* isRecording before it constructs the recorder.
ToggleRecordingUnguarded(s, outcome, inactiveStop) ==
    IF s.isRecording /\ (rev = "P1b" \/ s.mediaRecorder # 0)
    THEN StopRecording(s, inactiveStop)
    ELSE [StartRecording(s, RecordedStream(s), outcome) EXCEPT !.isRecording = TRUE]

\* toggleRecording. P1b tests isRecording alone and does not test the stream.
ToggleRecordingOn(s, outcome, inactiveStop) ==
    IF s.isRecording /\ (rev = "P1b" \/ s.mediaRecorder # 0)
    THEN StopRecording(s, inactiveStop)
    ELSE IF RecordedStream(s) # NoStream THEN StartRecording(s, RecordedStream(s), outcome)
    ELSE IF rev = "P1b" THEN [s EXCEPT !.chunksRef = <<>>]
    ELSE s

\* A click on "Start Recording" / "Stop Recording". The constructor throws on
\* no stream, and start() on a stream whose tracks have all ended.
ToggleRecording ==
    /\ rev \in RecordingRevs
    /\ Shown({"main"})
    /\ \E outcome \in {"ok", "ctorThrows", "startThrows"} :
       \E inactiveStop \in {"throws", "returns"} :
          /\ outcome = "ok" => RecordedStream(Cur) \in live
          /\ phase' = phase
          /\ Task(ToggleRecordingOn(Cur, outcome, inactiveStop), Op("toggleRecording", 0))

\* ondataavailable: an empty chunk is dropped.
OnDataAvailable(s, r, size) ==
    LET k == s.recorders[r].n + 1
        s1 == [s EXCEPT !.recorders[r].n = k,
                        !.recorders[r].data = IF size > 0 THEN Append(@, <<r, k>>) ELSE @]
    IN  IF size > 0 THEN [s1 EXCEPT !.chunksRef = Append(@, <<r, k>>)] ELSE s1

\* The file name onstop gives the download when the clock reads ms: only
\* part_003 puts new Date().toISOString() into it (stamp -1 is no timestamp).
DownloadName(ms) ==
    IF rev = "P3" THEN [base |-> "teleprompter-recording", stamp |-> ms]
    ELSE IF rev = "P1a" THEN [base |-> "recording", stamp |-> -1]
    ELSE [base |-> "teleprompter-recording", stamp |-> -1]

\* The clock readings, in milliseconds, possible for a handler that runs now:
\* the clock does not run backwards.
ClockReadings ==
    LET last == IF downloads = <<>> THEN 0 ELSE downloads[Len(downloads)].at
    IN  {ms \in {last, last + 1} : ms <= budget.clock}

\* onstop at the time ms: the Blob of chunksRef.current is downloaded.
OnStop(s, r, ms) ==
    [s EXCEPT !.recorders[r].state = "inactive",
              !.downloads = Append(@, [rec |-> r, parts |-> s.chunksRef, at |-> ms,
                                       name |-> DownloadName(ms)])]

\* A recorder delivers data while it records.
DataAvailable ==
    /\ phase # "init"
    /\ \E r \in DOMAIN recorders : \E size \in {0, 1} :
          /\ recorders[r].state = "recording"
          /\ recorders[r].n < budget.data
          /\ phase' = phase
          /\ Task(OnDataAvailable(Cur, r, size), Op("dataavailable", r))

\* A recorder that was stopped, or whose stream ended, fires its last
\* dataavailable and then stop, in one task.
RecorderStops ==
    /\ phase # "init"
    /\ \E r \in DOMAIN recorders : \E size \in {0, 1} : \E ms \in ClockReadings :
          /\ recorders[r].state = "finishing"
          /\ phase' = phase
          /\ Task(OnStop(OnDataAvailable(Cur, r, size), r, ms), Op("recorderStops", r))

\* The revisions that show the auto-scroll effect (the second revision of
\* WebTeleprompter.js elides it).
ScrollRevs == Revs \ {"B"}

\* The positions of the speed slider (min 0.5, max 5, step 0.5), in half-units.
ScrollSpeeds == 1..10

\* An auto-scroll effect whose cleanup does not clear the interval.
ScrollEffectKeepsTimer(as, sp) ==
    LET start == as /\ (rev = "P3" => ContainerMounted(Cur))
    IN  /\ timers' = IF start THEN timers \cup {[id |-> nTimers + 1, speed |-> sp]}
                     ELSE timers
        /\ scrollInterval' = IF start THEN nTimers + 1 ELSE 0
        /\ nTimers' = IF start THEN nTimers + 1 ELSE nTimers

\* The auto-scroll effect re-run for the values as and sp: the cleanup clears the
\* interval of the previous run, then an interval is scheduled when autoScroll
\* is set (and, in P3, the scroll container is mounted).
ScrollEffect(as, sp) ==
    LET kept  == {tm \in timers : tm.id # scrollInterval}
        start == as /\ (rev = "P3" => ContainerMounted(Cur))
    IN  /\ timers' = IF start THEN kept \cup {[id |-> nTimers + 1, speed |-> sp]} ELSE kept
        /\ scrollInterval' = IF start THEN nTimers + 1 ELSE 0
        /\ nTimers' = IF start THEN nTimers + 1 ELSE nTimers

\* The element's scrollTop after an assignment of v: the browser clamps the
\* value to the scrollable range and stores it as this browser stores offsets.
ScrollTopSet(v) ==
    LET c == IF v < 0 THEN 0 ELSE IF v > dom.scrollMax THEN dom.scrollMax ELSE v
    IN  IF dom.snap = "floor" THEN c - (c % 2)
        ELSE IF dom.snap = "round" THEN (IF c + (c % 2) > dom.scrollMax THEN c - (c % 2)
                                         ELSE c + (c % 2))
        ELSE c

\* A scheduled interval fires: the callback adds the scrollSpeed of the render
\* that scheduled it.
Tick ==
    /\ \E tm \in timers :
          /\ scrollTop' = IF ContainerMounted(Cur) THEN ScrollTopSet(scrollTop + tm.speed)
                          ELSE scrollTop
          /\ lastOp' = Op("tick", tm.id)
    /\ UNCHANGED <<envVars, phase, hasPermission, error, permissionStatus, facingMode,
                   stream, isVideoElementReady, streamRef, videoRef, srcObject, cbStream,
                   calls, live, checks, nChecks, isRecording, mediaRecorder, recorders,
                   chunksRef, downloads, autoScroll, scrollSpeed, timers, scrollInterval,
                   nTimers>>

\* The values a user or a script may try to give the slider, in quarter-units
\* (1 is 0.25).
RawSpeeds == 0..MaxRawSpeed

\* A range input that takes every value as it is given.
RangeKeepsValue(raw) == raw \div 2

\* The value of <input type="range" min="0.5" max="5" step="0.5"> after the
\* browser sanitized raw: clamped to [min, max], then moved to the nearest step
\* (upwards on a tie). The result is in half-units.
RangeValue(raw) ==
    LET c == IF raw < 2 THEN 2 ELSE IF raw > 20 THEN 20 ELSE raw
    IN  (c + (c % 2)) \div 2

\* The change handler: the number e.target.value reads as.
OnSpeedChange(value) == value

\* The speed slider is moved: the change event carries the value of the input.
SetScrollSpeed ==
    /\ rev \in ScrollRevs
    /\ Shown({"main"})
    /\ \E raw \in RawSpeeds : \E v \in {OnSpeedChange(RangeValue(raw))} :
          /\ v # scrollSpeed
          /\ autoScroll => nTimers < budget.timers
          /\ scrollSpeed' = v
          /\ ScrollEffect(autoScroll, v)
    /\ lastOp' = Op("setScrollSpeed", 0)
    /\ UNCHANGED <<envVars, phase, hasPermission, error, permissionStatus, facingMode,
                   stream, isVideoElementReady, streamRef, videoRef, srcObject, cbStream,
                   calls, live, checks, nChecks, isRecording, mediaRecorder, recorders,
                   chunksRef, downloads, autoScroll, scrollTop>>

\* A click on "Start Scroll" / "Stop Scroll".
ToggleAutoScroll ==
    /\ rev \in ScrollRevs
    /\ Shown({"main"})
    /\ ~autoScroll => nTimers < budget.timers
    /\ autoScroll' = ~autoScroll
    /\ ScrollEffect(~autoScroll, scrollSpeed)
    /\ lastOp' = Op("toggleAutoScroll", 0)
    /\ UNCHANGED <<envVars, phase, hasPermission, error, permissionStatus, facingMode,
                   stream, isVideoElementReady, streamRef, videoRef, srcObject, cbStream,
                   calls, live, checks, nChecks, isRecording, mediaRecorder, recorders,
                   chunksRef, downloads, scrollSpeed, scrollTop>>

\* The component unmounts: the effect cleanups run and the refs are detached.
\* The revisions of part_001 register no cleanup for the stream; P3 registers
\* it only when getUserMedia exists.
UnmountCleanup(s) ==
    IF rev \in StateStreamRevs THEN StopTracks(s, s.stream)
    ELSE IF rev \in {"B", "P0"} \/ (rev = "P3" /\ supported) THEN StopTracks(s, s.streamRef)
    ELSE s

Unmount ==
    /\ phase = "mounted"
    /\ phase' = "unmounted"
    /\ SetCamera([UnmountCleanup(Cur) EXCEPT !.videoRef = FALSE, !.srcObject = NoStream],
                 Op("unmount", 0))
    /\ timers' = {tm \in timers : tm.id # scrollInterval}
    /\ scrollInterval' = 0
    /\ scrollTop' = 0
    /\ UNCHANGED <<autoScroll, scrollSpeed, nTimers>>

ReactNext ==
    \/ Mount
    \/ PermissionQueryResolves
    \/ ClickStartCamera
    \/ GetUserMediaRejects
    \/ GetUserMediaResolves

Next ==
    \/ ReactNext
    \/ AttachCompletes
    \/ ToggleCamera
    \/ MountVideo
    \/ UnmountVideo

RecNext ==
    \/ ReactNext
    \/ AttachCompletes
    \/ ToggleCamera
    \/ ToggleRecording
    \/ DataAvailable
    \/ RecorderStops

DirectNext ==
    \/ ReactNext
    \/ AttachCompletes
    \/ ToggleCamera
    \/ ToggleRecording
    \/ RecorderStops
    \/ MountVideo
    \/ UnmountVideo

UnmountNext ==
    \/ Next
    \/ ToggleAutoScroll
    \/ Unmount

SessionNext ==
    \/ ReactNext
    \/ AttachCompletes
    \/ ToggleRecording
    \/ RecorderStops

ScrollNext ==
    \/ ReactNext
    \/ AttachCompletes
    \/ ToggleAutoScroll
    \/ SetScrollSpeed
    \/ Tick
    \/ Unmount

PresentNext ==
    \/ ScrollNext
    \/ ToggleCamera

FacingNext ==
    \/ Mount
    \/ PermissionQueryResolves
    \/ GetUserMediaRejects
    \/ GetUserMediaResolves
    \/ ToggleCamera

ReactBudget == [calls |-> ReactCalls, checks |-> ReactChecks, recorders |-> 0, data |-> 0]
CameraBudget == [calls |-> MaxCalls, checks |-> MaxChecks, recorders |-> 0, data |-> 0]
UnmountBudget ==
    [calls |-> UnmountCalls, checks |-> UnmountChecks, recorders |-> 0, data |-> 0,
     timers |-> UnmountTimers]
SessionBudget ==
    [calls |-> SessionCalls, checks |-> SessionChecks, recorders |-> SessionRecorders,
     data |-> 0, clock |-> 0]
ToggleBudget == [calls |-> ToggleCalls, checks |-> ToggleChecks, recorders |-> 0, data |-> 0]
PresentBudget ==
    [calls |-> PresentCalls, checks |-> PresentChecks, recorders |-> 0, data |-> 0,
     timers |-> PresentTimers]
FacingBudget == [calls |-> FacingCalls, checks |-> FacingChecks, recorders |-> 0, data |-> 0]
ArtifactBudget == [SessionBudget EXCEPT !.clock = MaxClock]
ScrollBudget ==
    [calls |-> ScrollCalls, checks |-> ScrollChecks, recorders |-> 0, data |-> 0,
     timers |-> ScrollTimers]
RecBudget ==
    [calls |-> RecCalls, checks |-> RecChecks, recorders |-> MaxRecorders, data |-> MaxData,
     clock |-> 0]
DirectBudget ==
    [calls |-> DirectCalls, checks |-> DirectChecks, recorders |-> DirectRecorders,
     data |-> 0, clock |-> 0]

\* The component as the browser runs it.
SpecReact == InitState(Revs, "react", ReactBudget, BOOLEAN, FALSE, {ExactDom}) /\ [][ReactNext]_<<vars>>

\* The camera lifecycle with the <video> element's presence as an input.
Spec == InitState(Revs, "mounted", CameraBudget, BOOLEAN, FALSE, {ExactDom}) /\ [][Next]_<<vars>>

\* Camera and recording, with the <video> element present throughout.
SpecRec == InitState(Revs, "mounted", RecBudget, {TRUE}, TRUE, {ExactDom}) /\ [][RecNext]_<<vars>>

\* The recording sessions of revision A, the data events left aside.
SessionRevs == {"A"}
SpecSession ==
    InitState(SessionRevs, "mounted", SessionBudget, {TRUE}, TRUE, {ExactDom})
        /\ [][SessionNext]_<<vars>>

\* The recording sessions of revision A and of the second revision of
\* part_001, whose stop branch tests isRecording alone.
StopRevs == {"A", "P1b"}
SpecStop ==
    InitState(StopRevs, "mounted", SessionBudget, {TRUE}, TRUE, {ExactDom})
        /\ [][SessionNext]_<<vars>>

\* The recording sessions of revision A and part_003 and the names of their
\* downloads, with a clock that may advance between two finalizations.
ArtifactRevs == {"A", "P3"}
SpecArtifacts ==
    InitState(ArtifactRevs, "mounted", ArtifactBudget, {TRUE}, TRUE, {ExactDom})
        /\ [][SessionNext]_<<vars>>

\* The camera lifecycle of revision A and of the first revision of part_001,
\* long enough for a facing-mode toggle after the camera was granted.
ToggleRevs == {"A", "P1a"}
SpecToggle ==
    InitState(ToggleRevs, "mounted", ToggleBudget, {TRUE}, TRUE, {ExactDom})
        /\ [][Next]_<<vars>>

\* Auto-scroll in revision A while the camera is acquired again and again.
PresentRevs == {"A"}
SpecPresent ==
    InitState(PresentRevs, "mounted", PresentBudget, {TRUE}, TRUE, {ExactDom})
        /\ [][PresentNext]_<<vars>>

\* The camera handlers of revision A and of the first revision of part_001
\* applied in any state, whatever view is rendered.
FacingRevs == {"A", "P1a"}
SpecFacing ==
    InitState(FacingRevs, "direct", FacingBudget, {TRUE}, TRUE, {ExactDom})
        /\ [][FacingNext]_<<vars>>

\* The camera lifecycle and the scroll timer of a component that unmounts.
SpecUnmount ==
    InitState(Revs, "mounted", UnmountBudget, {TRUE}, FALSE, {ExactDom}) /\ [][UnmountNext]_<<vars>>

\* Auto-scroll in the revisions A and P3, in a browser of each kind.
ScrollSpecRevs == {"A", "P3"}
SpecScroll ==
    InitState(ScrollSpecRevs, "mounted", ScrollBudget, {TRUE}, TRUE, Doms)
        /\ [][ScrollNext]_<<vars>>

\* The handlers of the revisions of DirectRevs applied in any state, whatever
\* view is rendered.
SpecDirect ==
    InitState(DirectRevs, "direct", DirectBudget, {TRUE}, FALSE, {ExactDom}) /\ [][DirectNext]_<<vars>>

\* ---------------------------------------------------------------------------
\* Properties of the camera lifecycle.

\* C1: at any time at most one acquired MediaStream has un-stopped tracks
\* (revision A and part_003).
C1_AtMostOneLiveStream ==
    rev \in {"A", "P3"} => Cardinality(live) <= 1

\* C2: whenever startCamera calls getUserMedia, every stream acquired earlier has
\* already been stopped: the stream it stops first is the one currently held
\* (revision A and part_002).
C2_ReleaseBeforeAcquire ==
    rev \in {"A", "P2"} => \A i \in DOMAIN calls : calls[i].overlap = {}

\* C8: while permissionStatus is 'prompt', 'denied' or 'error', no acquired stream
\* has un-stopped tracks (revision A and part_000).
C8_NoLiveStreamUnlessGranted ==
    (rev \in {"A", "P0"} /\ permissionStatus \in {"prompt", "denied", "error"})
        => live = {}

\* Whether a permission check or a startCamera invocation for facing mode fm is
\* under way.
Reacquiring(fm) ==
    \/ \E i \in DOMAIN checks : checks[i].fm = fm
    \/ \E i \in DOMAIN calls : calls[i].pc \in {"gum", "play"} /\ calls[i].fm = fm

\* C3: after toggleCamera in status 'granted' the stream held so far is stopped
\* and getUserMedia is requested with the opposite facing mode; when acquisition
\* and playback succeed the status is 'granted' again with the main view; the
\* controls are absent only while the status is 'requesting' (revision A).
C3_ToggleReacquires ==
    rev = "A" =>
        /\ (stream \in live /\ calls[stream].fm # facingMode) => Reacquiring(facingMode)
        /\ (stream \in live /\ calls[stream].fm # facingMode /\ View(Cur) # "main")
               => permissionStatus = "requesting"
        /\ lastOp.op = "ok" => (permissionStatus = "granted" /\ View(Cur) = "main")

\* C4: a startCamera invoked by a click in status 'prompt' whose getUserMedia and
\* video playback both succeed leaves permissionStatus 'granted', hasPermission
\* true, error null and the main view rendered (revision A and part_002).
C4_AllowClickGrants ==
    (/\ rev \in {"A", "P2"}
     /\ lastOp.op = "ok"
     /\ calls[lastOp.i].by = "click"
     /\ calls[lastOp.i].at = "prompt")
        => /\ permissionStatus = "granted"
           /\ hasPermission = "true"
           /\ error = Null
           /\ View(Cur) = "main"

C4_GrantedAfterAllowClick ==
    /\ rev = "A"
    /\ lastOp.op = "ok"
    /\ calls[lastOp.i].by = "click"
    /\ calls[lastOp.i].at = "prompt"
    /\ permissionStatus = "granted"
    /\ View(Cur) = "main"

\* C5: when getUserMedia rejects, permissionStatus becomes 'denied', hasPermission
\* false, error the rejection's message, and the error view is rendered; a click
\* on Try Again in that view sets permissionStatus to 'requesting' and issues a
\* new getUserMedia request (revision A).
C5_RejectionThenRetry ==
    [][rev = "A" =>
        /\ lastOp'.op = "gumRejected" =>
              /\ permissionStatus' = "denied"
              /\ hasPermission' = "false"
              /\ error' = MsgGumRejected
              /\ View(Cur)' = "error"
        /\ (/\ lastOp'.op = "click"
            /\ permissionStatus = "denied"
            /\ error = MsgGumRejected
            /\ View(Cur) = "error") =>
              /\ permissionStatus' = "requesting"
              /\ Len(calls') = Len(calls) + 1
              /\ calls'[Len(calls')].pc = "gum"]_vars

C5_RetriedAfterRejection ==
    /\ rev = "A"
    /\ lastOp.op = "click"
    /\ permissionStatus = "requesting"
    /\ Len(calls) >= 2
    /\ calls[Len(calls)].pc = "gum"
    /\ calls[Len(calls)].by = "click"
    /\ calls[Len(calls)].at = "denied"
    /\ calls[Len(calls) - 1].pc = "rejected"
    /\ error = MsgGumRejected

C7_RecordingNeedsLiveStream ==
    (rev = "A" /\ isRecording) =>
        /\ permissionStatus = "granted"
        /\ mediaRecorder # 0
        /\ recorders[mediaRecorder].stream \in live

\* C9: every stop of a recording triggers exactly one download, and the Blob
\* downloaded holds exactly the non-empty chunks that recorder delivered to
\* ondataavailable, in delivery order (revision A).
C9_DownloadHoldsOwnChunks ==
    rev = "A" =>
        /\ \A d \in DOMAIN downloads :
              downloads[d].parts = recorders[downloads[d].rec].data
        /\ \A d1, d2 \in DOMAIN downloads :
              downloads[d1].rec = downloads[d2].rec => d1 = d2
        /\ \A r \in DOMAIN recorders :
              recorders[r].state = "inactive" =>
                  \E d \in DOMAIN downloads : downloads[d].rec = r

\* C10, as the specification states it: toggleRecording with no stream held and
\* no recording active creates no MediaRecorder and leaves isRecording false and
\* mediaRecorder and the chunk buffer unchanged (revision A and the second
\* revision of part_001).
C10_RejectedStartChangesNothing ==
    [][(/\ rev \in {"A", "P1b"}
        /\ lastOp'.op = "toggleRecording"
        /\ RecordedStream(Cur) = NoStream
        /\ ~isRecording) =>
            /\ recorders' = recorders
            /\ isRecording' = FALSE
            /\ mediaRecorder' = mediaRecorder
            /\ chunksRef' = chunksRef]_vars

\* C10: toggleRecording with no stream held and no recording active creates no
\* MediaRecorder and leaves isRecording false and mediaRecorder unchanged; in
\* revision A the chunk buffer is unchanged too, while the second revision of
\* part_001 empties the chunk buffer before it fails.
C10_RejectedStartCreatesNoRecorder ==
    [][(/\ rev \in {"A", "P1b"}
        /\ lastOp'.op = "toggleRecording"
        /\ RecordedStream(Cur) = NoStream
        /\ ~isRecording) =>
            /\ recorders' = recorders
            /\ isRecording' = FALSE
            /\ mediaRecorder' = mediaRecorder
            /\ chunksRef' = IF rev = "P1b" THEN <<>> ELSE chunksRef]_vars

C10_StartRejectedWithoutStream ==
    /\ rev = "A"
    /\ lastOp.op = "toggleRecording"
    /\ stream = NoStream
    /\ ~isRecording
    /\ mediaRecorder = 0
    /\ recorders = <<>>

\* The MediaRecorders in the recording state.
Recording(rs) == {r \in DOMAIN rs : rs[r].state = "recording"}

StartFailed ==
    /\ lastOp'.op = "toggleRecording"
    /\ ~(isRecording /\ mediaRecorder # 0)
    /\ RecordedStream(Cur) # NoStream
    /\ recorders' = recorders

\* C12: when creating or starting the MediaRecorder throws inside
\* toggleRecording, an error is shown while the held stream stays live,
\* permissionStatus and hasPermission are unchanged, the main view stays
\* rendered, autoScroll and the scroll offset are unchanged and isRecording stays
\* false (revision A and part_003).
C12_RecordingFailureIsLocal ==
    [][(rev \in {"A", "P3"} /\ StartFailed) =>
        /\ error' # Null
        /\ live' = live
        /\ permissionStatus' = permissionStatus
        /\ hasPermission' = hasPermission
        /\ View(Cur)' = "main"
        /\ UNCHANGED scrollVars
        /\ ~isRecording']_vars

\* ---------------------------------------------------------------------------
\* Properties of the unmount.

\* C13: after the component unmounts, no stream it acquired has un-stopped
\* tracks and no scroll interval is scheduled, also when a getUserMedia request
\* or a video-attach step was in flight at the unmount (revision A and the first
\* revision of part_001).
C13_NothingOutlivesUnmount ==
    (rev \in {"A", "P1a"} /\ phase = "unmounted") => (live = {} /\ timers = {})

\* A startCamera call that is over: granted, rejected, or failed at the attach.
Completed(cs) == {i \in DOMAIN cs : cs[i].pc \in {"granted", "rejected", "failed"}}

\* C14: nothing is retried silently: once a startCamera attempt has completed
\* (granted, denied or error), getUserMedia is requested again only by a step
\* of the user: a click on "Allow Camera Access" / "Try Again" or on "Flip
\* Camera". The state updates of a completed attempt start no acquisition.
C14_NoSilentRetry ==
    [][(rev \in {"A", "P2", "P1a"}
        /\ Len(calls') > Len(calls)
        /\ Completed(calls') # {})
       => lastOp'.op \in {"click", "toggleCamera"}]_vars

\* The camera lifecycle of revision A where every promise of the browser
\* settles: permissions.query and getUserMedia answer, the mount effects run.
\* The events of the <video> element (loadedmetadata, error) and the clicks of
\* the user are not owed: they may never come.
WaitRevs == {"A"}
SpecWait ==
    /\ InitState(WaitRevs, "mounted", CameraBudget, BOOLEAN, FALSE, {ExactDom})
    /\ [][Next]_<<vars>>
    /\ WF_vars(Mount)
    /\ WF_vars(PermissionQueryResolves)
    /\ WF_vars(GetUserMediaResolves \/ GetUserMediaRejects)

\* A startCamera call that waits for the <video> element while the loading
\* view of 'requesting' is shown.
Waiting == \E i \in DOMAIN calls : calls[i].pc = "play"

\* C15: the wait for the <video> element is bounded: a startCamera that waits
\* for loadedmetadata ends its wait even if neither loadedmetadata nor error
\* ever fires, and the status then leaves 'requesting'.
C15_AttachWaitIsBounded ==
    (rev = "A" /\ Waiting /\ permissionStatus = "requesting")
        ~> (~Waiting \/ permissionStatus # "requesting")

\* getUserMedia resolved for a startCamera that finds no <video> element to
\* attach the stream to.
AttachFailed == lastOp'.op = "gumResolved" /\ ~videoRef

\* C16: a failed attach is never swallowed: a startCamera whose stream cannot be
\* attached, because the <video> element is not mounted, ends with a message in
\* error and a status other than 'checking' and 'requesting', so that the error
\* view is rendered.
C16_AttachFailureIsShown ==
    [][(rev \in {"B", "P1a"} /\ AttachFailed)
       => /\ error' # Null
          /\ permissionStatus' \notin {"checking", "requesting"}
          /\ View(Cur)' = "error"]_vars

\* How checkPermissions of revision A handles the answer of permissions.query:
\* 'prompt' and 'denied' set the status and request nothing, 'granted' calls
\* startCamera directly.
QueryHandled ==
    /\ lastOp'.op = "prompt" => (permissionStatus' = "prompt" /\ calls' = calls)
    /\ lastOp'.op = "denied" => (permissionStatus' = "denied" /\ calls' = calls)
    /\ lastOp'.op = "granted" =>
          /\ Len(calls') = Len(calls) + 1
          /\ calls'[Len(calls')].pc = "gum"
          /\ calls'[Len(calls')].by = "query"

C18_UnsupportedIsFinal ==
    [][(rev \in {"A", "P3"} /\ ~supported /\ phase = "mounted")
       => /\ error = MsgUnsupported
          /\ View(Cur) = "error"
          /\ lastOp'.op # "click"
          /\ error' = error
          /\ permissionStatus' = permissionStatus]_vars

\* C30: startCamera invoked while isVideoElementReady is false requests no
\* camera and stops no tracks: it sets error to 'Video element not initialized'
\* and leaves permissionStatus, hasPermission and stream as they are.
C30_NotReadyOnlySetsError ==
    [][(rev = "A" /\ lastOp'.op = "click" /\ ~isVideoElementReady)
       => /\ calls' = calls
          /\ live' = live
          /\ error' = MsgNotReady
          /\ permissionStatus' = permissionStatus
          /\ hasPermission' = hasPermission
          /\ stream' = stream]_vars

\* "Try Again" was clicked before the <video> element was ever seen.
C30_ClickedBeforeReady ==
    /\ rev = "A"
    /\ lastOp.op = "click"
    /\ ~isVideoElementReady
    /\ error = MsgNotReady

\* ---------------------------------------------------------------------------
\* Properties of auto-scroll.

\* C19: while autoScroll is true and the scroll container is mounted, every tick
\* of the interval increases the scroll offset by exactly scrollSpeed, for every
\* position of the speed slider (so that N ticks at a constant speed add
\* N x scrollSpeed).
C19_TickAddsScrollSpeed ==
    [][(rev = "A" /\ lastOp'.op = "tick" /\ autoScroll /\ ContainerMounted(Cur))
       => scrollTop' = scrollTop + scrollSpeed]_vars

\* C20: at most one scroll interval is scheduled at any time, and only while
\* autoScroll is true and the component is mounted: switching autoScroll off,
\* moving the speed slider or unmounting clears the previous interval before
\* any further tick, so every tick comes from the interval of the current
\* render and adds the current scrollSpeed.
C20_OneTimerOnlyWhileScrolling ==
    rev \in {"A", "P3"} =>
        /\ Cardinality(timers) <= 1
        /\ timers # {} => (autoScroll /\ phase = "mounted")
        /\ \A tm \in timers : tm.id = scrollInterval /\ tm.speed = scrollSpeed
        /\ lastOp.op = "tick" => (autoScroll /\ lastOp.i = scrollInterval)

\* The slider moved while auto-scroll was on, and the interval scheduled for
\* the new speed ticked.
C20_TickedAfterSpeedChange ==
    /\ rev \in {"A", "P3"}
    /\ lastOp = Op("tick", 2)
    /\ nTimers = 2
    /\ scrollSpeed # 2
    /\ timers = {[id |-> 2, speed |-> scrollSpeed]}

\* C21: auto-scroll does not depend on the state of the camera: in every
\* permissionStatus of the mounted component (before a stream was acquired,
\* during a re-acquisition, after a failure) the user can switch auto-scroll
\* on, and every tick of an enabled auto-scroll advances the scroll offset by
\* scrollSpeed.
C21_ScrollWhateverTheCamera ==
    [][(rev = "A" /\ phase = "mounted")
       => /\ (~autoScroll /\ nTimers < budget.timers) => ENABLED ToggleAutoScroll
          /\ (autoScroll /\ lastOp'.op = "tick") => scrollTop' = scrollTop + scrollSpeed]_vars

C29_OnlyTicksMoveTheOffset ==
    [][(rev = "A" /\ phase' = "mounted" /\ scrollTop' # scrollTop)
       => (lastOp'.op = "tick" /\ lastOp'.i = scrollInterval)]_vars

\* ---------------------------------------------------------------------------
\* Properties of the recording artifacts.

\* C23: once a stopped recorder's onstop handler has run and the download was
\* produced, the chunk buffer chunksRef is empty: the chunks of a finished
\* recording are not kept until the next start.
C23_BufferEmptyAfterStop ==
    [][(rev = "A" /\ lastOp'.op = "recorderStops") => chunksRef' = <<>>]_vars

\* C24: the download of a stopped recording is named with the time of its
\* finalization: two recordings finalized at different times get different
\* file names (revision A and part_003).
C24_NamesTellRecordingsApart ==
    rev \in {"A", "P3"} =>
        \A d1, d2 \in DOMAIN downloads :
            downloads[d1].at # downloads[d2].at => downloads[d1].name # downloads[d2].name

\* C26: the chunks of different recordings are never mixed through the shared
\* buffer, also when a recording is started before the previous recorder fired
\* its final dataavailable and stop events: every download consists of the
\* chunks of its own recorder, all of them, and the buffer of the running
\* recording holds chunks of that recording only.
C26_SessionsDoNotShareChunks ==
    rev = "A" =>
        /\ \A d \in DOMAIN downloads :
              /\ \A k \in DOMAIN downloads[d].parts :
                    downloads[d].parts[k][1] = downloads[d].rec
              /\ Len(downloads[d].parts) = Len(recorders[downloads[d].rec].data)
        /\ (mediaRecorder # 0 /\ recorders[mediaRecorder].state = "recording") =>
              \A k \in DOMAIN chunksRef : chunksRef[k][1] = mediaRecorder

\* ---------------------------------------------------------------------------
\* Progress of the permission check.

\* The component as the browser runs it, where the mount effects run and every
\* promise of the browser settles; the clicks of the user are not owed.
SpecReactFair ==
    /\ InitState(Revs, "react", ReactBudget, BOOLEAN, FALSE, {ExactDom})
    /\ [][ReactNext]_<<vars>>
    /\ WF_vars(Mount)
    /\ WF_vars(PermissionQueryResolves)
    /\ WF_vars(GetUserMediaResolves \/ GetUserMediaRejects)

\* C25: after the mount, where getUserMedia exists, permissionStatus leaves
\* 'checking' without any action of the user: the permission check does not
\* wait forever for isVideoElementReady.
C25_CheckingEnds ==
    (rev = "A" /\ supported /\ phase = "mounted") ~> (permissionStatus # "checking")

\* C27: one click on "Flip Camera" while the camera is granted leads to exactly
\* one acquisition attempt, not to none and not to two from different effects:
\* in the first revision of part_001 the click's re-render issues one
\* getUserMedia request; in revision A it starts one permission check, which
\* issues the request when the query answers.
C27_ToggleAcquiresOnce ==
    [][(rev \in {"A", "P1a"} /\ lastOp'.op = "toggleCamera" /\ permissionStatus = "granted")
       => IF rev = "P1a"
          THEN Len(calls') = Len(calls) + 1
          ELSE nChecks' = nChecks + 1 /\ calls' = calls]_vars

\* The steps in which checkPermissions runs: the effect at the mount and after
\* a facing-mode toggle, and the answers of permissions.query.
CheckPermissionsOps == {"mount", "toggleCamera", "granted", "prompt", "denied", "throws"}

\* C28: when navigator.permissions.query is missing or rejects, checkPermissions
\* falls back to startCamera, which issues one getUserMedia request, and the
\* status does not become 'error' for that reason: checkPermissions sets
\* 'error' only where getUserMedia does not exist (revision A and part_000).
C28_QueryFailureFallsBack ==
    [][(rev \in {"A", "P0"}) =>
        /\ lastOp'.op = "throws" =>
              /\ Len(calls') = Len(calls) + 1
              /\ calls'[Len(calls')].pc = "gum"
              /\ calls'[Len(calls')].by = "query"
              /\ permissionStatus' = "requesting"
        /\ (lastOp'.op \in CheckPermissionsOps /\ permissionStatus' = "error")
              => ~supported]_vars

\* permissions.query failed and checkPermissions requested the camera.
C28_FellBackToStartCamera ==
    /\ rev \in {"A", "P0"}
    /\ lastOp.op = "throws"
    /\ calls # <<>>
    /\ calls[Len(calls)].by = "query"
    /\ calls[Len(calls)].pc = "gum"
    /\ permissionStatus = "requesting"

\* ---------------------------------------------------------------------------
\* Properties of the component state.

\* C31: in every state permissionStatus = 'granted' implies hasPermission =
\* true, and the main view is rendered only when permissionStatus = 'granted',
\* hasPermission = true and error = null (revision A and part_000).
C31_MainViewOnlyWhenGranted ==
    (rev \in {"A", "P0"} /\ phase = "mounted") =>
        /\ permissionStatus = "granted" => hasPermission = "true"
        /\ View(Cur) = "main" =>
              (permissionStatus = "granted" /\ hasPermission = "true" /\ error = Null)

\* The main view is rendered, with the camera granted.
C31_MainViewRendered ==
    /\ rev \in {"A", "P0"}
    /\ phase = "mounted"
    /\ View(Cur) = "main"
    /\ permissionStatus = "granted"
    /\ lastOp.op = "ok"

\* The steps of startCamera (its invocation by a click or by a permission check,
\* and its continuations) and of toggleCamera.
CameraOps ==
    {"click", "granted", "throws", "gumResolved", "gumRejected", "ok", "playRejected",
     "videoError", "toggleCamera"}

\* C32: every startCamera invocation and every toggleCamera call, whatever the
\* outcome of the acquisition, leaves the presentation state as it was:
\* scrollSpeed, autoScroll and the scroll offset (the text is a state no camera
\* code refers to).
C32_CameraLeavesPresentation ==
    [][(rev = "A" /\ lastOp'.op \in CameraOps)
       => UNCHANGED <<scrollSpeed, autoScroll, scrollTop>>]_vars

\* C33: facingMode is always 'user' or 'environment'; toggleCamera, called in
\* any state, changes it to the other value, so that two consecutive calls
\* restore the value; nothing else changes it (revision A and the first
\* revision of part_001).
C33_ToggleFlipsFacingMode ==
    [][(rev \in {"A", "P1a"}) =>
        /\ facingMode' \in {"user", "environment"}
        /\ IF lastOp'.op = "toggleCamera"
           THEN facingMode' # facingMode
           ELSE facingMode' = facingMode]_vars

\* A toggle brought facingMode back to the value the component starts with.
C33_ToggledBackToUser ==
    /\ rev \in {"A", "P1a"}
    /\ lastOp.op = "toggleCamera"
    /\ facingMode = "user"

\* C34: whenever isRecording is true the mediaRecorder state holds a recorder,
\* so that the stop branch of toggleRecording, which a click takes when
\* isRecording is true, calls stop() on a recorder and never on null; also in
\* the second revision of part_001, whose stop branch tests isRecording alone.
C34_RecordingHasRecorder ==
    (rev \in {"A", "P1b"} /\ isRecording) =>
        /\ mediaRecorder \in DOMAIN recorders
        /\ ToggleRecordingOn(Cur, "ok", "returns") = StopRecording(Cur, "returns")

\* A click took the stop branch and stopped the recorder.
C34_StopBranchStoppedRecorder ==
    /\ rev \in {"A", "P1b"}
    /\ lastOp.op = "toggleRecording"
    /\ ~isRecording
    /\ mediaRecorder \in DOMAIN recorders
    /\ recorders[mediaRecorder].state # "recording"


====
